---- MODULE Spec2Model ----
(***************************************************************************)
(* isg-guardian: the process monitor (src/src/monitor.py), the crash       *)
(* logger (src/src/logger.py) and the MQTT command subscriber              *)
(* (src/src/mqtt_subscriber.py) as state machines.                         *)
(*                                                                         *)
(* Time is a wall clock counted in ticks of 1/TicksPerSec second.  Every   *)
(* coroutine is cut at its awaits: the code between two awaits runs on the *)
(* asyncio loop without interruption and is one action; the clock and the  *)
(* other tasks move only between actions.                                  *)
(*                                                                         *)
(* An external command (adb, mosquitto_sub) is another process: the       *)
(* action that takes its result happens when the command ends, if it does. *)
(*                                                                         *)
(* Optional[int] is a sequence: None is <<>> and the value v is <<v>>.     *)
(***************************************************************************)
EXTENDS Integers, Sequences, FiniteSets, TLC

VARIABLES
    clock,        \* datetime.now(), in ticks
    last_pid,     \* ProcessMonitor.last_pid
    start_time,   \* ProcessMonitor.start_time
    mpc,          \* where check_app_status is suspended
    mloc,         \* its locals while suspended: pid, uptime, pattern index
    snap,         \* the AppStatus it returned last
    mon_obs,      \* history of the running evaluation
    lastRun,      \* history: the most recent running=True snapshot
    prevRun,      \* history: the running=True snapshot before lastRun
    obs_session,  \* history: the streak of equal PIDs the census has reported
    store,        \* the crash_*.log files of crash_log_dir
    lpc,          \* where the capture in progress is suspended
    lloc,         \* its locals while suspended
    cap_obs,      \* history of the capture that returned last
    cls_in,       \* the argument of _detect_crash_type, when checked on its own
    cls_out,      \* its result
    sub_running,      \* MQTTSubscriber.running
    sub_proc,         \* MQTTSubscriber.subscriber_process and its returncode
    restart_callback, \* MQTTSubscriber.restart_callback is set
    sub_pipe,         \* the lines mosquitto_sub has written and the loop has not read
    loop_pc,          \* where the _process_messages task is
    stop_pc,          \* where stop() is
    restart_tasks,    \* _execute_restart tasks created and not yet run
    in_flight,        \* invocations of restart_callback awaited and not yet returned
    sub_obs,          \* history of the subscriber
    max_log_files,    \* config['logging']['max_log_files']
    status_log,       \* what status_log_file holds, write by write
    slpc,             \* where log_status is suspended, and its locals
    status_obs,       \* history of the log_status call that returned last
    stats             \* history of the get_crash_statistics call that returned last

monitorVars == <<last_pid, start_time, mpc, mloc, snap, mon_obs, lastRun, prevRun,
                 obs_session>>

loggerVars == <<store, lpc, lloc, cap_obs>>

classifyVars == <<cls_in, cls_out>>

subVars == <<sub_running, sub_proc, restart_callback, sub_pipe, loop_pc, stop_pc,
             restart_tasks, in_flight, sub_obs>>

configVars == <<max_log_files>>

statusVars == <<status_log, slpc, status_obs>>

statsVars == <<stats>>

\* the configuration, the status log and the statistics, which the monitor, the
\* captures, the classifier and the subscriber leave alone
sideVars == <<configVars, statusVars, statsVars>>

vars == <<clock, monitorVars, loggerVars, classifyVars, subVars, sideVars>>

---------------------------------------------------------------------------
(* Bounds of the model *)

\* ticks per second of the model's clock
TicksPerSec == 2
\* the clock stops after this many ticks within a day
MaxTicks == 2
\* and after this many whole days
MaxDays == 1
\* PIDs the census reports are 0..MaxPid
MaxPid == 2
\* VmRSS values, in kB, are 0..MaxKb
MaxKb == 1
\* captures started in one run
MaxCaptures == 2
\* artifacts an earlier run left in the directory
MaxOld == 3
\* messages published on the restart topic
MaxMsgs == 3

None == <<>>
Some(v) == <<v>>
IsSome(o) == o /= None
Get(o) == o[1]

---------------------------------------------------------------------------
(* Clock *)

\* timedelta(days=1).total_seconds()
SecsPerDay == 86400
TicksPerDay == SecsPerDay * TicksPerSec

\* datetime.now() advances between two awaits.
Tick ==
    /\ clock % TicksPerDay < MaxTicks
    /\ clock' = clock + 1
    /\ UNCHANGED <<monitorVars, loggerVars, classifyVars, subVars, sideVars>>

\* A day passes while no capture is in progress (the poll loop sleeps).
DayPasses ==
    /\ lpc = "idle"
    /\ clock \div TicksPerDay < MaxDays
    /\ clock' = clock + TicksPerDay
    /\ UNCHANGED <<monitorVars, loggerVars, classifyVars, subVars, sideVars>>

---------------------------------------------------------------------------
(* src/src/monitor.py *)

\* AppStatus(): the dataclass defaults.
AppStatus == [running |-> FALSE, crashed |-> FALSE, pid |-> None, uptime |-> 0,
              memory_mb |-> 0]

\* A bug the checks must notice: the stopped snapshot filled from the session the
\* tracker holds.
StoppedStatusOfSession(crashed) ==
    [AppStatus EXCEPT !.crashed = crashed, !.pid = last_pid,
                      !.uptime = IF IsSome(start_time)
                                 THEN (clock - Get(start_time)) \div TicksPerSec ELSE 0]

\* AppStatus(running=False, crashed=crashed)
StoppedStatus(crashed) == [AppStatus EXCEPT !.crashed = crashed]

\* AppStatus(running=True, pid=pid, uptime=uptime, memory_mb=memory_mb);
\* memory_mb is kept in units of 1/1024 MB (kb / 1024.0).
RunningStatus(pid, uptime, memory_mb) ==
    [AppStatus EXCEPT !.running = TRUE, !.pid = Some(pid), !.uptime = uptime,
                      !.memory_mb = memory_mb]

\* A bug the checks must notice: the difference taken the wrong way round.
UptimeReversed(now, st) == IF IsSome(st) THEN (Get(st) - now) \div TicksPerSec ELSE 0

\* int((datetime.now() - self.start_time).total_seconds()) if self.start_time else 0
\* Both reads of datetime.now() in _get_running_status fall between the same two
\* awaits: they are the same tick, and int() drops the fraction of a second.
Uptime(now, st) == IF IsSome(st) THEN (now - Get(st)) \div TicksPerSec ELSE 0

\* A bug the checks must notice: the session start is set once and never reset.
TrackSessionKeepStart(lp, st, pid, now) ==
    IF lp /= Some(pid)
    THEN [last_pid |-> Some(pid), start_time |-> IF IsSome(st) THEN st ELSE Some(now)]
    ELSE [last_pid |-> lp, start_time |-> st]

\* if self.last_pid != pid: self.last_pid = pid; self.start_time = datetime.now()
TrackSession(lp, st, pid, now) ==
    IF lp /= Some(pid)
    THEN [last_pid |-> Some(pid), start_time |-> Some(now)]
    ELSE [last_pid |-> lp, start_time |-> st]

\* A bug the checks must notice: the tracker is cleared when no process is found.
TrackerWhenStoppedCleared(lp, st) == [last_pid |-> None, start_time |-> None]

\* The branches of check_app_status that return running=False assign neither
\* self.last_pid nor self.start_time.
TrackerWhenStopped(lp, st) == [last_pid |-> lp, start_time |-> st]

\* The census results: the first line of pgrep's output.
\*   "pid"      returncode 0, first line the digits of p
\*   "garbage"  returncode 0, first line not all digits
\*   "none"     pgrep ran and found no process: returncode /= 0 or empty output
\*   "failed"   the command failed to run: _run_command caught the exception
\*              and returned returncode 1 with empty output
\*   "raise"    int() rejects a line isdigit() accepted
CensusResults ==
    [kind : {"pid"}, pid : 0..MaxPid]
      \cup [kind : {"garbage", "none", "failed", "raise"}, pid : {0}]

\* The history of one evaluation, reset when check_app_status is entered.
FreshObs == [done |-> FALSE, tracked_before |-> last_pid, start_before |-> start_time,
             mem_attempted |-> FALSE, evidence |-> FALSE, census |-> "unset", at |-> clock,
             pid |-> None, mem |-> "unset", last_grep |-> "unset"]

NoLocals == [pid |-> 0, uptime |-> 0, pat |-> 0]

\* check_app_status up to the await of the census command
CheckStart ==
    /\ mpc = "idle"
    /\ mpc' = "census"
    /\ mon_obs' = FreshObs
    /\ UNCHANGED <<clock, last_pid, start_time, mloc, snap, lastRun, prevRun, obs_session>>

\* The streak of equal PIDs as the census reported them, kept apart from the
\* tracker: a census without a PID does not end the streak.
ObserveSession(pid) ==
    IF obs_session.pid = Some(pid)
    THEN obs_session
    ELSE [pid |-> Some(pid), since |-> clock, gap |-> FALSE]

\* _get_running_status up to the await of the memory command
get_running_status(pid) ==
    /\ last_pid' = TrackSession(last_pid, start_time, pid, clock).last_pid
    /\ start_time' = TrackSession(last_pid, start_time, pid, clock).start_time
    /\ mloc' = [pid |-> pid, uptime |-> Uptime(clock, start_time'), pat |-> 0]
    /\ mpc' = "memory"
    /\ mon_obs' = [mon_obs EXCEPT !.mem_attempted = TRUE, !.census = "pid", !.at = clock,
                                  !.pid = Some(pid)]
    /\ obs_session' = ObserveSession(pid)
    /\ UNCHANGED <<snap, lastRun, prevRun>>

\* check_app_status returns a snapshot with running=False
ReturnStopped(s, census, evidence, grep) ==
    /\ snap' = s
    /\ mpc' = "idle"
    /\ mloc' = NoLocals
    /\ mon_obs' = [mon_obs EXCEPT !.done = TRUE, !.census = census,
                                  !.evidence = evidence, !.last_grep = grep]
    /\ last_pid' = TrackerWhenStopped(last_pid, start_time).last_pid
    /\ start_time' = TrackerWhenStopped(last_pid, start_time).start_time
    /\ obs_session' = [obs_session EXCEPT !.gap = IsSome(obs_session.pid)]
    /\ UNCHANGED <<lastRun, prevRun>>

\* check_app_status from the census result to the next await or the return
CensusReturn(r) ==
    /\ mpc = "census"
    /\ UNCHANGED clock
    /\ CASE r.kind = "pid" /\ r.pid /= 0 -> get_running_status(r.pid)
         [] r.kind = "pid" /\ r.pid = 0  ->
               ReturnStopped(StoppedStatus(FALSE), "invalid", FALSE, "unset")
         [] r.kind = "garbage"           ->
               ReturnStopped(StoppedStatus(FALSE), "invalid", FALSE, "unset")
         [] r.kind = "raise"             -> ReturnStopped(AppStatus, "raise", FALSE, "unset")
         [] r.kind \in {"none", "failed"} ->
               /\ mpc' = "crash"
               /\ mloc' = [pid |-> 0, uptime |-> 0, pat |-> 1]
               /\ mon_obs' = [mon_obs EXCEPT !.census = r.kind]
               /\ UNCHANGED <<last_pid, start_time, snap, lastRun, prevRun, obs_session>>

\* crash_patterns of _check_recent_crash
NumCrashPatterns == 3

\* A bug the checks must notice: the loop falls through to "return True".
check_recent_crash_default_true(r, pat) ==
    CASE r = "hit"   -> "True"
      [] r = "raise" -> "False"
      [] r \in {"miss", "failed"} /\ pat >= NumCrashPatterns -> "True"
      [] OTHER -> "next"

\* _check_recent_crash after the grep for pattern number pat returned r:
\*   "hit"    returncode 0 and output: return True
\*   "miss"   anything else the command returns: the next pattern, or return False
\*   "failed" the command failed to run (_run_command returned returncode 1):
\*            as a miss
\*   "raise"  an exception inside the loop: caught, return False
check_recent_crash(r, pat) ==
    CASE r = "hit"   -> "True"
      [] r = "raise" -> "False"
      [] r \in {"miss", "failed"} /\ pat >= NumCrashPatterns -> "False"
      [] OTHER -> "next"

\* what one grep of _check_recent_crash gives
GrepResults == {"hit", "miss", "failed", "raise"}

\* check_app_status from the result of one grep to the next await or the return
CrashPatternReturn(r) ==
    /\ mpc = "crash"
    /\ UNCHANGED clock
    /\ LET res == check_recent_crash(r, mloc.pat) IN
       IF res = "next"
       THEN /\ mloc' = [mloc EXCEPT !.pat = @ + 1]
            /\ mon_obs' = [mon_obs EXCEPT !.last_grep = r]
            /\ UNCHANGED <<last_pid, start_time, mpc, snap, lastRun, prevRun, obs_session>>
       ELSE ReturnStopped(StoppedStatus(res = "True"), mon_obs.census, r = "hit", r)

\* _get_memory_usage: what the read of /proc/<pid>/status gives.
\*   "kb"    returncode 0 and a line "VmRSS: <digits> kB"
\*   "none"    returncode /= 0, no such line, or the field is not digits
\*   "failed"  the command failed to run, or int() raised: caught
MemoryResults == [kind : {"kb"}, kb : 0..MaxKb] \cup [kind : {"none", "failed"}, kb : {0}]

\* A bug the checks must notice: a failed query reported as a negative size.
get_memory_usage_negative(r) == IF r.kind = "kb" THEN r.kb ELSE -1

get_memory_usage(r) == IF r.kind = "kb" THEN r.kb ELSE 0

\* _get_running_status from the memory result to the return
MemoryReturn(r) ==
    /\ mpc = "memory"
    /\ snap' = RunningStatus(mloc.pid, mloc.uptime, get_memory_usage(r))
    /\ mpc' = "idle"
    /\ mloc' = NoLocals
    /\ mon_obs' = [mon_obs EXCEPT !.done = TRUE, !.mem = r.kind]
    /\ prevRun' = lastRun
    /\ lastRun' = Some([pid |-> mloc.pid, uptime |-> mloc.uptime])
    /\ UNCHANGED <<clock, last_pid, start_time, obs_session>>

InitMonitor ==
    /\ last_pid = None
    /\ start_time = None
    /\ mpc = "idle"
    /\ mloc = NoLocals
    /\ snap = AppStatus
    /\ mon_obs = [done |-> FALSE, tracked_before |-> None, start_before |-> None,
                  mem_attempted |-> FALSE, evidence |-> FALSE, census |-> "unset",
                  at |-> 0, pid |-> None, mem |-> "unset", last_grep |-> "unset"]
    /\ lastRun = None
    /\ prevRun = None
    /\ obs_session = [pid |-> None, since |-> 0, gap |-> FALSE]

NextMonitor ==
    \/ Tick
    \/ DayPasses
    \/ CheckStart /\ UNCHANGED <<loggerVars, classifyVars, subVars, sideVars>>
    \/ \E r \in CensusResults : CensusReturn(r) /\ UNCHANGED <<loggerVars, classifyVars, subVars, sideVars>>
    \/ \E r \in GrepResults :
           CrashPatternReturn(r) /\ UNCHANGED <<loggerVars, classifyVars, subVars, sideVars>>
    \/ \E r \in MemoryResults : MemoryReturn(r) /\ UNCHANGED <<loggerVars, classifyVars, subVars, sideVars>>

---------------------------------------------------------------------------
(* Text: str as a sequence of one-character strings *)

LowerCase ==
    <<"a", "b", "c", "d", "e", "f", "g", "h", "i", "j", "k", "l", "m", "n", "o", "p",
      "q", "r", "s", "t", "u", "v", "w", "x", "y", "z">>
UpperCase ==
    <<"A", "B", "C", "D", "E", "F", "G", "H", "I", "J", "K", "L", "M", "N", "O", "P",
      "Q", "R", "S", "T", "U", "V", "W", "X", "Y", "Z">>

\* str.upper() of one character
UpperChar(c) ==
    IF \E i \in 1..Len(LowerCase) : LowerCase[i] = c
    THEN UpperCase[CHOOSE i \in 1..Len(LowerCase) : LowerCase[i] = c]
    ELSE c

\* str.upper()
Upper(t) == [i \in 1..Len(t) |-> UpperChar(t[i])]

\* the characters str.strip() removes
IsSpace(c) == c \in {" ", "\n", "\t", "\r"}

\* bool(line.strip()): some character of the line is not white space
NonBlank(line) == \E i \in 1..Len(line) : ~IsSpace(line[i])

\* '\n'.join(logs), the list joined half by half
RECURSIVE Join(_)
Join(lines) ==
    IF lines = <<>> THEN <<>>
    ELSE IF Len(lines) = 1 THEN lines[1]
    ELSE LET half == Len(lines) \div 2
         IN Join(SubSeq(lines, 1, half)) \o <<"\n">>
                \o Join(SubSeq(lines, half + 1, Len(lines)))

\* pat in text
Contains(text, pat) ==
    \E i \in 1..(Len(text) - Len(pat) + 1) : SubSeq(text, i, i + Len(pat) - 1) = pat

---------------------------------------------------------------------------
(* src/src/logger.py: classification *)

\* the literals of _detect_crash_type
FATAL_EXCEPTION ==
    <<"F", "A", "T", "A", "L", " ", "E", "X", "C", "E", "P", "T", "I", "O", "N">>
ANR == <<"A", "N", "R">>
APPLICATION_NOT_RESPONDING ==
    <<"A", "P", "P", "L", "I", "C", "A", "T", "I", "O", "N", " ", "N", "O", "T", " ",
      "R", "E", "S", "P", "O", "N", "D", "I", "N", "G">>
OUTOFMEMORYERROR ==
    <<"O", "U", "T", "O", "F", "M", "E", "M", "O", "R", "Y", "E", "R", "R", "O", "R">>
SIGNAL == <<"S", "I", "G", "N", "A", "L">>
SIGSEGV == <<"S", "I", "G", "S", "E", "G", "V">>
SIGABRT == <<"S", "I", "G", "A", "B", "R", "T">>
SIGKILL == <<"S", "I", "G", "K", "I", "L", "L">>

\* A bug the checks must notice: the SIGABRT test moved in front of the others.
detect_crash_type_abort_first(logs) ==
    IF logs = <<>> THEN "process_missing"
    ELSE LET log_text == Upper(Join(logs)) IN
         IF Contains(log_text, SIGABRT) THEN "abort"
         ELSE IF Contains(log_text, FATAL_EXCEPTION) THEN "fatal_exception"
         ELSE IF Contains(log_text, ANR)
                 \/ Contains(log_text, APPLICATION_NOT_RESPONDING) THEN "anr"
         ELSE IF Contains(log_text, OUTOFMEMORYERROR) THEN "oom"
         ELSE IF Contains(log_text, SIGNAL) /\ Contains(log_text, SIGSEGV)
              THEN "native_crash"
         ELSE IF Contains(log_text, SIGKILL) THEN "killed"
         ELSE "unknown"

\* _detect_crash_type
detect_crash_type(logs) ==
    IF logs = <<>> THEN "process_missing"
    ELSE LET log_text == Upper(Join(logs)) IN
         IF Contains(log_text, FATAL_EXCEPTION) THEN "fatal_exception"
         ELSE IF Contains(log_text, ANR)
                 \/ Contains(log_text, APPLICATION_NOT_RESPONDING) THEN "anr"
         ELSE IF Contains(log_text, OUTOFMEMORYERROR) THEN "oom"
         ELSE IF Contains(log_text, SIGNAL) /\ Contains(log_text, SIGSEGV)
              THEN "native_crash"
         ELSE IF Contains(log_text, SIGABRT) THEN "abort"
         ELSE IF Contains(log_text, SIGKILL) THEN "killed"
         ELSE "unknown"

---------------------------------------------------------------------------
(* src/src/logger.py: the diagnostic queries *)

\* str.strip()
Strip(t) ==
    LET keep == {i \in 1..Len(t) : ~IsSpace(t[i])} IN
    IF keep = {} THEN <<>>
    ELSE SubSeq(t, CHOOSE i \in keep : \A j \in keep : i <= j,
                   CHOOSE i \in keep : \A j \in keep : j <= i)

\* str.split('\n'): the empty string gives one empty line.  The text is cut at
\* the '\n' nearest after its middle (or, failing that, nearest before) and
\* both parts are split.
RECURSIVE SplitLines(_)
SplitLines(t) ==
    LET mid == (Len(t) \div 2) + 1
        after == {i \in mid..Len(t) : t[i] = "\n"}
        before == {i \in 1..(mid - 1) : t[i] = "\n"}
    IN IF after /= {}
       THEN LET n == CHOOSE i \in after : \A j \in after : i <= j
            IN SplitLines(SubSeq(t, 1, n - 1)) \o SplitLines(SubSeq(t, n + 1, Len(t)))
       ELSE IF before /= {}
       THEN LET n == CHOOSE i \in before : \A j \in before : j <= i
            IN SplitLines(SubSeq(t, 1, n - 1)) \o SplitLines(SubSeq(t, n + 1, Len(t)))
       ELSE <<t>>

\* _get_crash_logcat, given the stdout of the logcat command (a failure to run it
\* is caught and gives [], as empty output does)
get_crash_logcat(stdout) ==
    IF stdout = <<>> THEN <<>>
    ELSE SelectSeq(SplitLines(Strip(stdout)), NonBlank)

\* _get_recent_system_logs, given the command's returncode and stdout (a failure
\* to run it is caught and gives [], as a returncode other than 0 does)
get_recent_system_logs(r) ==
    IF r.returncode = 0 THEN SplitLines(Strip(r.stdout)) ELSE <<>>

\* A bug the checks must notice: the head of the list kept, lines[:n].
FirstLines(lines, n) ==
    IF Len(lines) > n THEN SubSeq(lines, 1, n) ELSE lines

\* lines[-n:] if len(lines) > n else lines
LastLines(lines, n) ==
    IF Len(lines) > n THEN SubSeq(lines, Len(lines) - n + 1, Len(lines)) ELSE lines

\* crash_logs[-100:]
CrashTail == 100
\* recent_logs[-50:]
SystemTail == 50

---------------------------------------------------------------------------
(* src/src/logger.py: the artifacts *)

\* config['logging']['max_log_files'] is 1..MaxLogFiles
MaxLogFiles == 2
\* config['logging']['retention_days']
retention_days == 1

\* datetime.now().strftime("%Y%m%d_%H%M%S"): the second of the tick
Timestamp(now) == now \div TicksPerSec

\* what an artifact holds when a write failed after open(file_path, 'w')
Malformed == [kind |-> "malformed", timestamp |-> 0, crash_type |-> "", uptime |-> 0,
              memory_usage |-> 0, pid |-> None, logcat_lines |-> None, logs |-> None]

\* crash_report of capture_crash_logs
crash_report(status, crash_logs, now) ==
    [kind |-> "crash", timestamp |-> now, crash_type |-> detect_crash_type(crash_logs),
     uptime |-> status.uptime, memory_usage |-> status.memory_mb, pid |-> status.pid,
     logcat_lines |-> Some(Len(crash_logs)),
     logs |-> Some(LastLines(crash_logs, CrashTail))]

\* event_report of capture_force_stop_event, before the system logs are added
event_report(status, now) ==
    [kind |-> "force_stop", timestamp |-> now, crash_type |-> "force_stop",
     uptime |-> status.uptime, memory_usage |-> status.memory_mb, pid |-> status.pid,
     logcat_lines |-> None, logs |-> None]

\* A bug the checks must notice: the system logs kept whole.
with_system_logs_whole(report, recent_logs) ==
    IF recent_logs /= <<>> THEN [report EXCEPT !.logs = Some(recent_logs)] ELSE report

\* if recent_logs: event_report["system_logs"] = recent_logs[-50:]
with_system_logs(report, recent_logs) ==
    IF recent_logs /= <<>>
    THEN [report EXCEPT !.logs = Some(LastLines(recent_logs, SystemTail))]
    ELSE report

\* _write_json_file: the files of the directory after it.
\*   "ok"            open(file_path, 'w') and the write succeed
\*   "open_failed"   open raises: the directory is as it was
\*   "write_failed"  the write raises after open created or truncated the file
\* Every exception is caught here: the caller sees none.
write_json_file(files, name, data, now, outcome) ==
    CASE outcome = "ok" ->
            {f \in files : f.name /= name}
                \cup {[name |-> name, mtime |-> now, content |-> data]}
      [] outcome = "write_failed" ->
            {f \in files : f.name /= name}
                \cup {[name |-> name, mtime |-> now, content |-> Malformed]}
      [] OTHER -> files

\* A bug the checks must notice: the sort without reverse=True.
RECURSIVE SortedListingsOldestFirst(_)
SortedListingsOldestFirst(files) ==
    IF files = {} THEN {<<>>}
    ELSE LET oldest == {f \in files : \A g \in files : f.mtime <= g.mtime}
         IN UNION {{<<f>> \o rest : rest \in SortedListingsOldestFirst(files \ {f})} :
                      f \in oldest}

\* list(glob("crash_*.log")) sorted by st_mtime, newest first: the sort is stable
\* and glob's order is the directory's, so files of equal mtime come in any order.
RECURSIVE SortedListings(_)
SortedListings(files) ==
    IF files = {} THEN {<<>>}
    ELSE LET newest == {f \in files : \A g \in files : g.mtime <= f.mtime}
         IN UNION {{<<f>> \o rest : rest \in SortedListings(files \ {f})} :
                      f \in newest}

\* A bug the checks must notice: a file exactly retention_days old counts as aged.
AgedInclusive(f, now) == f.mtime <= now - retention_days * TicksPerDay

\* file_time < cutoff_time, with cutoff_time = now - timedelta(days=retention_days)
Aged(f, now) == f.mtime < now - retention_days * TicksPerDay

\* A bug the checks must notice: the pass over the retained files left out.
DeletionOrderCountOnly(log_files, now) ==
    LET n == Len(log_files)
        kept == IF n > max_log_files THEN max_log_files ELSE n
    IN SubSeq(log_files, kept + 1, n)

\* The files _cleanup_old_logs unlinks, in the order it unlinks them:
\* log_files[max_files:], then those of log_files[:max_files] that are aged.
DeletionOrder(log_files, now) ==
    LET n == Len(log_files)
        kept == IF n > max_log_files THEN max_log_files ELSE n
    IN SubSeq(log_files, kept + 1, n)
         \o SelectSeq(SubSeq(log_files, 1, kept), LAMBDA f : Aged(f, now))

\* _cleanup_old_logs over the sorted listing log_files.  failAt = 0: no call
\* raises.  failAt = k > 0: the k-th unlink raises (or, before any unlink, glob or
\* stat does): the exception is caught and the sweep ends with k - 1 files deleted.
cleanup_old_logs(files, log_files, now, failAt) ==
    LET del == DeletionOrder(log_files, now)
        n == IF failAt = 0 THEN Len(del) ELSE failAt - 1
        gone == {del[i] : i \in 1..n}
    IN [files |-> files \ gone, failed |-> failAt /= 0]

\* the values failAt takes for a listing
FailPoints(log_files, now) ==
    LET n == Len(DeletionOrder(log_files, now)) IN 0..(IF n = 0 THEN 1 ELSE n)

NoReport == Malformed
NoCapture == [kind |-> "none", name |-> 0, status |-> AppStatus, report |-> NoReport,
              lines |-> <<>>]

\* capture_crash_logs / capture_force_stop_event up to the first await
CaptureStart(kind, status) ==
    /\ lpc = "idle"
    /\ cap_obs.started < MaxCaptures
    /\ lpc' = IF kind = "crash" THEN "logcat" ELSE "syslog"
    /\ lloc' = [kind |-> kind, name |-> Timestamp(clock), status |-> status,
                report |-> IF kind = "crash" THEN NoReport
                           ELSE event_report(status, clock),
                lines |-> <<>>]
    /\ cap_obs' = [cap_obs EXCEPT !.started = @ + 1]
    /\ UNCHANGED <<clock, store>>

\* capture_crash_logs from the logcat output to the await of the write
LogcatReturn(stdout) ==
    /\ lpc = "logcat"
    /\ lpc' = "write"
    /\ lloc' = [lloc EXCEPT !.report =
                   crash_report(lloc.status, get_crash_logcat(stdout), clock),
                            !.lines = get_crash_logcat(stdout)]
    /\ UNCHANGED <<clock, store, cap_obs>>

\* capture_force_stop_event from the system-log output to the await of the write
SyslogReturn(r) ==
    /\ lpc = "syslog"
    /\ lpc' = "write"
    /\ lloc' = [lloc EXCEPT !.report =
                   with_system_logs(lloc.report, get_recent_system_logs(r)),
                            !.lines = get_recent_system_logs(r)]
    /\ UNCHANGED <<clock, store, cap_obs>>

\* return str(crash_file): reached whatever _write_json_file and
\* _cleanup_old_logs met, since both catch every exception.  "" is None.
capture_result(name, outcome) == Some(name)

\* Both captures from the end of the write to the return: _write_json_file
\* returns, _cleanup_old_logs runs (it has no await), the path is returned.
WriteReturn(outcome, failAt) ==
    /\ lpc = "write"
    /\ LET written == write_json_file(store, lloc.name, lloc.report, clock, outcome) IN
       \E log_files \in SortedListings(written) :
          /\ failAt \in FailPoints(log_files, clock)
          /\ LET swept == cleanup_old_logs(written, log_files, clock, failAt) IN
             /\ store' = swept.files
             /\ cap_obs' = [started |-> cap_obs.started, done |-> TRUE, kind |-> lloc.kind, status |-> lloc.status,
                            name |-> lloc.name, report |-> lloc.report,
                            lines |-> lloc.lines,
                            outcome |-> outcome,
                            returned |-> capture_result(lloc.name, outcome),
                            before |-> store, listed |-> written,
                            sweep_failed |-> swept.failed, now |-> clock,
                            prev_done |-> cap_obs.done, prev_kind |-> cap_obs.kind,
                            prev_status |-> cap_obs.status,
                            prev_outcome |-> cap_obs.outcome,
                            prev_sweep_failed |-> cap_obs.sweep_failed,
                            prev_now |-> cap_obs.now]
    /\ lpc' = "idle"
    /\ lloc' = NoCapture
    /\ UNCHANGED clock

NoCaptureYet ==
    [started |-> 0, done |-> FALSE, kind |-> "none", status |-> AppStatus, name |-> 0,
     report |-> NoReport, lines |-> <<>>, outcome |-> "unset", returned |-> None,
     before |-> {}, listed |-> {}, sweep_failed |-> FALSE, now |-> 0,
     prev_done |-> FALSE, prev_kind |-> "none", prev_status |-> AppStatus,
     prev_outcome |-> "unset", prev_sweep_failed |-> FALSE, prev_now |-> 0]

InitLogger ==
    /\ store = {}
    /\ lpc = "idle"
    /\ lloc = NoCapture
    /\ cap_obs = NoCaptureYet

\* the snapshots handed to the captures
Statuses == {StoppedStatus(TRUE), RunningStatus(1, 1, 1)}

\* outputs of the logcat command
LogcatOutputs == {<<"s", "i", "g", "a", "b", "r", "t", "\n">>}

\* results of the system-log command
SyslogResults ==
    {[returncode |-> 0, stdout |-> <<"a", "m", "\n">>]}

\* crash_log_dir outlives the process: start() makes it with exist_ok=True, and a
\* run begins with what earlier runs, other retention settings and failed sweeps
\* left there.  The artifacts an earlier run may have left, by modification time:
\* longer ago than the retention window, just outside it, on its edge (at tick
\* 0), and two written in the same tick shortly before this run.
OldReport == event_report(AppStatus, 0)
OldFile(name, mtime) ==
    [name |-> name, mtime |-> mtime, content |-> [OldReport EXCEPT !.timestamp = mtime]]
OldFiles ==
    LET window == retention_days * TicksPerDay IN
    { OldFile(Timestamp(-window - TicksPerDay), -window - TicksPerDay),
      OldFile(Timestamp(-window - 1), -window - 1),
      OldFile(Timestamp(-window), -window),
      OldFile(Timestamp(-2 * TicksPerSec), -1),
      OldFile(Timestamp(-TicksPerSec), -1) }
OldStores == {fs \in SUBSET OldFiles : Cardinality(fs) <= MaxOld}

\* the greatest failAt tried (FailPoints cuts it to the listing)
MaxFailAt == MaxOld + 1

NextLogger ==
    \/ Tick
    \/ DayPasses
    \/ \E kind \in {"crash", "force_stop"}, status \in Statuses :
           CaptureStart(kind, status) /\ UNCHANGED <<monitorVars, classifyVars, subVars, sideVars>>
    \/ \E stdout \in LogcatOutputs :
           LogcatReturn(stdout) /\ UNCHANGED <<monitorVars, classifyVars, subVars, sideVars>>
    \/ \E r \in SyslogResults :
           SyslogReturn(r) /\ UNCHANGED <<monitorVars, classifyVars, subVars, sideVars>>
    \/ \E outcome \in {"ok", "open_failed", "write_failed"}, failAt \in 0..MaxFailAt :
           WriteReturn(outcome, failAt) /\ UNCHANGED <<monitorVars, classifyVars, subVars, sideVars>>

\* One capture over a directory earlier runs left.
NextRetention ==
    \/ Tick
    \/ \E kind \in {"crash", "force_stop"} :
           /\ cap_obs.started = 0
           /\ CaptureStart(kind, StoppedStatus(TRUE))
           /\ UNCHANGED <<monitorVars, classifyVars, subVars, sideVars>>
    \/ \E stdout \in LogcatOutputs :
           LogcatReturn(stdout) /\ UNCHANGED <<monitorVars, classifyVars, subVars, sideVars>>
    \/ \E r \in SyslogResults :
           SyslogReturn(r) /\ UNCHANGED <<monitorVars, classifyVars, subVars, sideVars>>
    \/ \E outcome \in {"ok", "open_failed", "write_failed"}, failAt \in 0..MaxFailAt :
           WriteReturn(outcome, failAt) /\ UNCHANGED <<monitorVars, classifyVars, subVars, sideVars>>


\* One capture with long outputs of the diagnostic commands.
\* lines the commands print: up to
MaxUpstream == 102
\* the numbers of lines tried: few, around SystemTail, around CrashTail
UpstreamLengths ==
    {n \in 0..MaxUpstream :
        \/ n <= 2
        \/ (n >= SystemTail - 1 /\ n <= SystemTail + 2)
        \/ n >= CrashTail - 1}
\* line number i of an output: two letters, different for every i
UpstreamLine(i) ==
    <<LowerCase[((i - 1) \div Len(LowerCase)) + 1], LowerCase[((i - 1) % Len(LowerCase)) + 1]>>
\* the output with n lines, each ended by '\n'
UpstreamOutput(n) ==
    [k \in 1..(3 * n) |-> IF k % 3 = 0 THEN "\n" ELSE UpstreamLine((k + 2) \div 3)[k % 3]]
LongLogcatOutputs == {UpstreamOutput(n) : n \in UpstreamLengths}
\* the system-log command: output of any length, crash words in it, or a failure
LongSyslogResults ==
    [returncode : {0}, stdout : LongLogcatOutputs \cup LogcatOutputs]
        \cup {[returncode |-> 1, stdout |-> <<>>]}

NextTail ==
    \/ Tick
    \/ \E kind \in {"crash", "force_stop"} :
           /\ cap_obs.started = 0
           /\ CaptureStart(kind, StoppedStatus(TRUE))
           /\ UNCHANGED <<monitorVars, classifyVars, subVars, sideVars>>
    \/ \E stdout \in LongLogcatOutputs :
           LogcatReturn(stdout) /\ UNCHANGED <<monitorVars, classifyVars, subVars, sideVars>>
    \/ \E r \in LongSyslogResults :
           SyslogReturn(r) /\ UNCHANGED <<monitorVars, classifyVars, subVars, sideVars>>
    \/ \E outcome \in {"ok", "open_failed", "write_failed"}, failAt \in 0..MaxFailAt :
           WriteReturn(outcome, failAt) /\ UNCHANGED <<monitorVars, classifyVars, subVars, sideVars>>

\* Crash captures one after the other over a directory earlier runs left.
NextSweeps ==
    \/ Tick
    \/ /\ CaptureStart("crash", StoppedStatus(TRUE))
       /\ UNCHANGED <<monitorVars, classifyVars, subVars, sideVars>>
    \/ \E stdout \in LogcatOutputs :
           LogcatReturn(stdout) /\ UNCHANGED <<monitorVars, classifyVars, subVars, sideVars>>
    \/ \E outcome \in {"ok", "open_failed", "write_failed"}, failAt \in 0..MaxFailAt :
           WriteReturn(outcome, failAt) /\ UNCHANGED <<monitorVars, classifyVars, subVars, sideVars>>

---------------------------------------------------------------------------
(* src/src/logger.py: the status log *)

\* log_status calls in one run
MaxStatusCalls == 3

\* kb / 1024.0 of _get_memory_usage
KbPerMb == 1024
\* f"{status.memory_mb:.1f}": tenths of a MB, from units of 1/1024 MB
Tenths(memory_mb) == (memory_mb * 10 + (KbPerMb \div 2)) \div KbPerMb

\* status_line, field by field: the second, the state, the PID or N/A (None: pid
\* is None or 0), the uptime, the memory
status_line(status, now) ==
    << Timestamp(now), status.running,
       IF IsSome(status.pid) /\ Get(status.pid) /= 0 THEN status.pid ELSE None,
       status.uptime, Tenths(status.memory_mb) >>

\* One write to status_log_file: complete is TRUE when the whole of
\* status_line + '\n' reached the file, FALSE when only a part of it did.
StatusWrite(line, complete) == [text |-> line, complete |-> complete]

\* async with aiofiles.open(status_log_file, 'a') as f: await f.write(line + '\n')
\*   "ok"             open and write succeed
\*   "open_failed"    open raises
\*   "write_failed"   the write (or the flush at close) raises with nothing written
\*   "write_partial"  it raises after a part of the line reached the file
\* Every exception is caught and printed.
append_status(log, line, outcome) ==
    CASE outcome = "ok"            -> Append(log, StatusWrite(line, TRUE))
      [] outcome = "write_partial" -> Append(log, StatusWrite(line, FALSE))
      [] OTHER -> log

StatusOutcomes == {"ok", "open_failed", "write_failed", "write_partial"}

NoStatusCall == [pc |-> "idle", line |-> <<>>]

\* log_status up to the await of the open
LogStatusStart(status) ==
    /\ slpc.pc = "idle"
    /\ status_obs.calls < MaxStatusCalls
    /\ slpc' = [pc |-> "write", line |-> status_line(status, clock)]
    /\ status_obs' = [status_obs EXCEPT !.calls = @ + 1]
    /\ UNCHANGED <<clock, status_log>>

\* log_status from the open to the return
LogStatusReturn(outcome) ==
    /\ slpc.pc = "write"
    /\ status_log' = append_status(status_log, slpc.line, outcome)
    /\ status_obs' = [calls |-> status_obs.calls, done |-> TRUE, outcome |-> outcome,
                      line |-> slpc.line, before |-> status_log]
    /\ slpc' = NoStatusCall
    /\ UNCHANGED clock

InitStatus ==
    /\ status_log = <<>>
    /\ slpc = NoStatusCall
    /\ status_obs = [calls |-> 0, done |-> FALSE, outcome |-> "unset", line |-> <<>>,
                     before |-> <<>>]

NextStatus ==
    \/ Tick
    \/ \E status \in Statuses :
           /\ LogStatusStart(status)
           /\ UNCHANGED <<monitorVars, loggerVars, classifyVars, subVars, configVars,
                          statsVars>>
    \/ \E outcome \in StatusOutcomes :
           /\ LogStatusReturn(outcome)
           /\ UNCHANGED <<monitorVars, loggerVars, classifyVars, subVars, configVars,
                          statsVars>>

---------------------------------------------------------------------------
(* src/src/logger.py: the statistics *)

\* log_files[-10:]
RecentCount == 10
\* artifacts in the directory when the statistics are taken
MaxStatFiles == 11

\* log_files[-10:] of list(glob("crash_*.log")), which is not sorted: the listing
\* is in the directory's order, so its last RecentCount entries are any
\* RecentCount files of the directory (all of them when there are no more).
RecentTails(files) ==
    IF Cardinality(files) <= RecentCount THEN {files}
    ELSE {t \in SUBSET files : Cardinality(t) = RecentCount}

\* open, read and json.loads succeed for the file (the bare except skips the
\* others)
Readable(f) == f.content /= Malformed

\* crash_types over the files read
Histogram(read) ==
    LET ok == {f \in read : Readable(f)} IN
    [t \in {f.content.crash_type : f \in ok} |->
        Cardinality({f \in ok : f.content.crash_type = t})]

\* today in f.name: the name is the second of the capture
NamedToday(f, now) == f.name \div SecsPerDay = Timestamp(now) \div SecsPerDay

\* A bug the checks must notice: min() and max() over the listing without the
\* guard for an empty one (ValueError, caught: the result is {}).
get_crash_statistics_unguarded(files, tail, now, raises) ==
    IF raises \/ files = {} THEN None
    ELSE Some([total_crashes |-> Cardinality(files),
               today_crashes |-> Cardinality({f \in files : NamedToday(f, now)}),
               recent_crash_types |-> Histogram(tail),
               oldest_log |-> CHOOSE m \in {f.mtime : f \in files} :
                                  \A f \in files : m <= f.mtime,
               newest_log |-> CHOOSE m \in {f.mtime : f \in files} :
                                  \A f \in files : f.mtime <= m])

\* get_crash_statistics over the directory's files, tail being log_files[-10:].
\* raises: a stat() of the return statement raises (a file of the listing is
\* gone); the outer except returns {}, which is None here.
get_crash_statistics(files, tail, now, raises) ==
    IF raises THEN None
    ELSE Some([total_crashes |-> Cardinality(files),
               today_crashes |-> Cardinality({f \in files : NamedToday(f, now)}),
               recent_crash_types |-> Histogram(tail),
               oldest_log |-> IF files = {} THEN 0
                              ELSE CHOOSE m \in {f.mtime : f \in files} :
                                       \A f \in files : m <= f.mtime,
               newest_log |-> IF files = {} THEN 0
                              ELSE CHOOSE m \in {f.mtime : f \in files} :
                                       \A f \in files : f.mtime <= m])

NoStatistics == [done |-> FALSE, result |-> None, tail |-> {}, now |-> 0]

\* get_crash_statistics, start to return: it writes nothing
GetStatistics(raises) ==
    /\ ~stats.done
    /\ raises => store /= {}
    /\ \E tail \in RecentTails(store) :
           stats' = [done |-> TRUE,
                     result |-> get_crash_statistics(store, tail, clock, raises),
                     tail |-> tail, now |-> clock]
    /\ UNCHANGED <<clock, store, lpc, lloc, cap_obs>>

\* The artifacts earlier captures left, number i written i - 1 seconds before
\* the run began: crashes of several types, and files a failed write left.
StatTypes == <<"anr", "force_stop", "unknown">>
StatFile(i) ==
    LET at == (1 - i) * TicksPerSec IN
    [name |-> Timestamp(at), mtime |-> at,
     content |-> IF i % (Len(StatTypes) + 1) = 0 THEN Malformed
                 ELSE [OldReport EXCEPT !.timestamp = at,
                                        !.crash_type = StatTypes[i % (Len(StatTypes) + 1)]]]
StatFiles == {StatFile(i) : i \in 1..MaxStatFiles}

\* directories with few artifacts, and with RecentCount or more
StatStores ==
    {fs \in SUBSET StatFiles : Cardinality(fs) <= 2 \/ Cardinality(fs) >= RecentCount}

NextStatistics ==
    \/ Tick
    \/ \E raises \in BOOLEAN :
           /\ GetStatistics(raises)
           /\ UNCHANGED <<monitorVars, classifyVars, subVars, configVars, statusVars>>

---------------------------------------------------------------------------
(* src/src/mqtt_subscriber.py *)

\* str.lower() of one character
LowerChar(c) ==
    IF \E i \in 1..Len(UpperCase) : UpperCase[i] = c
    THEN LowerCase[CHOOSE i \in 1..Len(UpperCase) : UpperCase[i] = c]
    ELSE c

\* str.lower()
Lower(t) == [i \in 1..Len(t) |-> LowerChar(t[i])]

\* ['restart', 'on', '1', 'true']
RestartWords == {<<"r", "e", "s", "t", "a", "r", "t">>,
                 <<"o", "n">>, <<"1">>, <<"t", "r", "u", "e">>}

\* message.lower() in ['restart', 'on', '1', 'true']
IsRestartCommand(message) == Lower(message) \in RestartWords

\* payloads published on the restart topic
Payloads == {<<"R", "e", "s", "t", "a", "r", "t">>,
             <<"O", "N">>, <<"1">>, <<"s", "t", "a", "t", "u", "s">>, <<" ">>}

\* start(), with MQTT enabled, and _start_subscriber: mosquitto_sub is spawned,
\* running is set and the _process_messages task is created.  spawned = FALSE:
\* create_subprocess_exec raises, which is caught; nothing is set.
StartSubscriber(spawned) ==
    /\ sub_proc = "none" /\ loop_pc = "none" /\ stop_pc = "none"
    /\ IF spawned
       THEN /\ sub_proc' = "alive"
            /\ sub_running' = TRUE
            /\ loop_pc' = "created"
       ELSE UNCHANGED <<sub_proc, sub_running, loop_pc>>
    /\ sub_obs' = [sub_obs EXCEPT !.starts = @ + 1]
    /\ UNCHANGED <<restart_callback, sub_pipe, stop_pc, restart_tasks, in_flight>>

\* set_restart_callback
SetRestartCallback ==
    /\ ~restart_callback
    /\ restart_callback' = TRUE
    /\ UNCHANGED <<sub_running, sub_proc, sub_pipe, loop_pc, stop_pc, restart_tasks,
                   in_flight, sub_obs>>

\* The broker delivers a payload: mosquitto_sub writes it as one line.
Publish(payload) ==
    /\ sub_proc = "alive"
    /\ sub_obs.published < MaxMsgs
    /\ sub_pipe' = Append(sub_pipe, payload \o <<"\n">>)
    /\ sub_obs' = [sub_obs EXCEPT !.published = @ + 1]
    /\ UNCHANGED <<sub_running, sub_proc, restart_callback, loop_pc, stop_pc,
                   restart_tasks, in_flight>>

\* mosquitto_sub exits: terminated by stop(), or on its own.
ProcessExits ==
    /\ sub_proc = "alive"
    /\ sub_proc' = "exited"
    /\ UNCHANGED <<sub_running, restart_callback, sub_pipe, loop_pc, stop_pc,
                   restart_tasks, in_flight, sub_obs>>

\* while self.running and self.subscriber_process.returncode is None
LoopContinues(running, proc) == running /\ proc = "alive"

\* _process_messages from the start of the task to the first readline
LoopBegin ==
    /\ loop_pc = "created"
    /\ loop_pc' = IF LoopContinues(sub_running, sub_proc) THEN "readline" ELSE "ended"
    /\ UNCHANGED <<sub_running, sub_proc, restart_callback, sub_pipe, stop_pc,
                   restart_tasks, in_flight, sub_obs>>

\* _handle_command: the _execute_restart tasks it creates (asyncio.create_task per
\* restart command while a callback is set)
handle_command(message, callback) ==
    IF IsRestartCommand(message) /\ callback THEN 1 ELSE 0

\* _process_messages from the return of readline to the next readline or the
\* end of the loop: a line is decoded, stripped and, unless empty, handled; at
\* end of file (the process has exited and every line was read) the loop breaks.
ReadlineReturn ==
    /\ loop_pc = "readline"
    /\ IF sub_pipe /= <<>>
       THEN LET message == Strip(Head(sub_pipe))
                created == IF message /= <<>>
                           THEN handle_command(message, restart_callback) ELSE 0
            IN /\ sub_pipe' = Tail(sub_pipe)
               /\ restart_tasks' = restart_tasks + created
               /\ sub_obs' = [sub_obs EXCEPT
                                 !.created_after_stop =
                                     @ \/ (created > 0 /\ stop_pc = "returned")]
               /\ loop_pc' = IF LoopContinues(sub_running, sub_proc)
                             THEN "readline" ELSE "ended"
       ELSE /\ sub_proc = "exited"
            /\ loop_pc' = "ended"
            /\ UNCHANGED <<sub_pipe, restart_tasks, sub_obs>>
    /\ UNCHANGED <<sub_running, sub_proc, restart_callback, stop_pc, in_flight>>

\* _execute_restart from the start of the task to the await of the callback
RestartTaskRuns ==
    /\ restart_tasks > 0
    /\ restart_tasks' = restart_tasks - 1
    /\ in_flight' = IF restart_callback THEN in_flight + 1 ELSE in_flight
    /\ sub_obs' = [sub_obs EXCEPT
                      !.invoked_after_stop = @ \/ (restart_callback /\ stop_pc = "returned")]
    /\ UNCHANGED <<sub_running, sub_proc, restart_callback, sub_pipe, loop_pc, stop_pc>>

\* _execute_restart from the return of the callback (True, False or an
\* exception, which is caught) to its end
RestartReturns ==
    /\ in_flight > 0
    /\ in_flight' = in_flight - 1
    /\ UNCHANGED <<sub_running, sub_proc, restart_callback, sub_pipe, loop_pc, stop_pc,
                   restart_tasks, sub_obs>>

\* stop() up to the await of subscriber_process.wait(): running is cleared and
\* the process, if there is one, is sent SIGTERM
StopBegin ==
    /\ stop_pc = "none"
    /\ sub_running' = FALSE
    /\ stop_pc' = IF sub_proc = "none" THEN "returned" ELSE "wait"
    /\ UNCHANGED <<sub_proc, restart_callback, sub_pipe, loop_pc, restart_tasks,
                   in_flight, sub_obs>>

\* stop() from the return of wait() to its end
StopReturn ==
    /\ stop_pc = "wait"
    /\ sub_proc = "exited"
    /\ stop_pc' = "returned"
    /\ UNCHANGED <<sub_running, sub_proc, restart_callback, sub_pipe, loop_pc,
                   restart_tasks, in_flight, sub_obs>>

InitSubscriber ==
    /\ sub_running = FALSE
    /\ sub_proc = "none"
    /\ restart_callback = FALSE
    /\ sub_pipe = <<>>
    /\ loop_pc = "none"
    /\ stop_pc = "none"
    /\ restart_tasks = 0
    /\ in_flight = 0
    /\ sub_obs = [starts |-> 0, published |-> 0, created_after_stop |-> FALSE,
                  invoked_after_stop |-> FALSE]

NextSubscriber ==
    \/ \E spawned \in BOOLEAN :
           /\ sub_obs.starts = 0
           /\ StartSubscriber(spawned)
           /\ UNCHANGED <<clock, monitorVars, loggerVars, classifyVars, sideVars>>
    \/ SetRestartCallback /\ UNCHANGED <<clock, monitorVars, loggerVars, classifyVars, sideVars>>
    \/ \E payload \in Payloads :
           Publish(payload) /\ UNCHANGED <<clock, monitorVars, loggerVars, classifyVars, sideVars>>
    \/ ProcessExits /\ UNCHANGED <<clock, monitorVars, loggerVars, classifyVars, sideVars>>
    \/ LoopBegin /\ UNCHANGED <<clock, monitorVars, loggerVars, classifyVars, sideVars>>
    \/ ReadlineReturn /\ UNCHANGED <<clock, monitorVars, loggerVars, classifyVars, sideVars>>
    \/ RestartTaskRuns /\ UNCHANGED <<clock, monitorVars, loggerVars, classifyVars, sideVars>>
    \/ RestartReturns /\ UNCHANGED <<clock, monitorVars, loggerVars, classifyVars, sideVars>>
    \/ StopBegin /\ UNCHANGED <<clock, monitorVars, loggerVars, classifyVars, sideVars>>
    \/ StopReturn /\ UNCHANGED <<clock, monitorVars, loggerVars, classifyVars, sideVars>>

---------------------------------------------------------------------------
(* _detect_crash_type on its own *)

\* lists of log lines have at most this many lines
MaxLogLines == 2

\* log lines: the keywords in mixed case, alone and inside other words, the
\* halves of a phrase, a line with no keyword and an empty line
SampleLines ==
    { <<"F", "a", "t", "a", "l", " ", "E", "x", "c", "e", "p", "t", "i", "o", "n">>,
      <<"f", "a", "t", "a", "l">>,
      <<"e", "x", "c", "e", "p", "t", "i", "o", "n">>,
      <<"a", "n", "r">>,
      <<"A", "p", "p", "l", "i", "c", "a", "t", "i", "o", "n", " ", "N", "o", "t", " ", "R",
        "e", "s", "p", "o", "n", "d", "i", "n", "g">>,
      <<"O", "u", "t", "O", "f", "M", "e", "m", "o", "r", "y", "E", "r", "r", "o", "r">>,
      <<"s", "i", "g", "n", "a", "l">>,
      <<"s", "i", "g", "s", "e", "g", "v">>,
      <<"S", "i", "g", "A", "b", "r", "t">>,
      <<"s", "i", "g", "k", "i", "l", "l">>,
      <<"o", "k">>,
      <<>>,
      <<"s", "c", "a", "n", "r", "e", "s", "u", "l", "t">> }

RECURSIVE SeqsUpTo(_, _)
SeqsUpTo(S, n) ==
    IF n = 0 THEN {<<>>}
    ELSE LET shorter == SeqsUpTo(S, n - 1)
         IN shorter \cup {Append(q, x) : q \in {r \in shorter : Len(r) = n - 1}, x \in S}

ClassifyInputs == SeqsUpTo(SampleLines, MaxLogLines)

\* self._detect_crash_type(crash_logs)
Classify ==
    /\ cls_out = "unset"
    /\ cls_out' = detect_crash_type(cls_in)
    /\ UNCHANGED <<clock, monitorVars, loggerVars, subVars, cls_in, sideVars>>

NextClassify == Classify

---------------------------------------------------------------------------
(* Specifications *)

\* the configuration is read once; the status log and the statistics are idle
InitConfig == max_log_files \in 1..MaxLogFiles
InitSide ==
    /\ InitConfig
    /\ InitStatus
    /\ stats = NoStatistics

Init ==
    /\ clock = 0
    /\ InitMonitor
    /\ InitLogger
    /\ InitSubscriber
    /\ InitSide
    /\ cls_in = <<>>
    /\ cls_out = "unset"

SpecMonitor == Init /\ [][NextMonitor]_vars

SpecLogger == Init /\ [][NextLogger]_vars

\* The steps of a capture that are the program's own: once the write is
\* awaited, the write, the sweep and the return follow.  The diagnostic commands
\* are other processes: process.communicate() is awaited with no timeout, so
\* LogcatReturn and SyslogReturn happen only if the command ends, and nothing
\* makes it end.
CaptureOwnSteps ==
    \E outcome \in {"ok", "open_failed", "write_failed"}, failAt \in 0..MaxFailAt :
        WriteReturn(outcome, failAt) /\ UNCHANGED <<monitorVars, classifyVars, subVars, sideVars>>

SpecLoggerLive == Init /\ [][NextLogger]_vars /\ WF_vars(CaptureOwnSteps)

SpecSubscriber == Init /\ [][NextSubscriber]_vars

InitRetention ==
    /\ clock = 0
    /\ InitMonitor
    /\ store \in OldStores
    /\ lpc = "idle"
    /\ lloc = NoCapture
    /\ cap_obs = NoCaptureYet
    /\ InitSubscriber
    /\ InitSide
    /\ cls_in = <<>>
    /\ cls_out = "unset"

SpecRetention == InitRetention /\ [][NextRetention]_vars

SpecSweeps == InitRetention /\ [][NextSweeps]_vars

InitClassify ==
    /\ clock = 0
    /\ InitMonitor
    /\ InitLogger
    /\ InitSubscriber
    /\ InitSide
    /\ cls_in \in ClassifyInputs
    /\ cls_out = "unset"

SpecClassify == InitClassify /\ [][NextClassify]_vars

SpecTail == Init /\ [][NextTail]_vars

SpecStatus == Init /\ [][NextStatus]_vars

InitStatistics ==
    /\ clock = 0
    /\ InitMonitor
    /\ store \in StatStores
    /\ lpc = "idle"
    /\ lloc = NoCapture
    /\ cap_obs = NoCaptureYet
    /\ InitSubscriber
    /\ InitSide
    /\ cls_in = <<>>
    /\ cls_out = "unset"

SpecStatistics == InitStatistics /\ [][NextStatistics]_vars

---------------------------------------------------------------------------
(* Claims about the process monitor, checked under SpecMonitor *)

\* check_app_status has returned and nothing has entered it since
Evaluated == mpc = "idle" /\ mon_obs.done

\* C1: when a running=True evaluation finds a PID other than the one the
\* tracker held when the evaluation began (the initial None included), the
\* snapshot it returns has uptime 0 and the tracker holds the new PID.
C1_PidChangeResetsUptime ==
    (Evaluated /\ snap.running /\ mon_obs.tracked_before /= snap.pid)
        => (snap.uptime = 0 /\ last_pid = snap.pid)

\* C1's case: the PID changed from one process to another, a second or more
\* after the old session began.
C1_Witness ==
    /\ Evaluated /\ snap.running
    /\ IsSome(mon_obs.tracked_before) /\ mon_obs.tracked_before /= snap.pid
    /\ IsSome(mon_obs.start_before)
    /\ mon_obs.at - Get(mon_obs.start_before) >= TicksPerSec

\* C6: no snapshot is both running and crashed, and a snapshot is crashed only
\* if it is not running and a grep of the recent-crash check found a line.
C6_CrashedExcludesRunning ==
    Evaluated =>
        /\ ~(snap.running /\ snap.crashed)
        /\ snap.crashed => (~snap.running /\ mon_obs.evidence)

\* C6's case: a crashed snapshot.
C6_Witness == Evaluated /\ snap.crashed

\* C7: an evaluation that returns running=False leaves last_pid and start_time
\* as they were; the session the tracker holds is the streak of equal PIDs the
\* census reported, gaps included, and uptime is measured from its first report.
C7_StoppedKeepsSession ==
    /\ (Evaluated /\ ~snap.running) =>
           (last_pid = mon_obs.tracked_before /\ start_time = mon_obs.start_before)
    /\ IsSome(last_pid) =>
           (last_pid = obs_session.pid /\ start_time = Some(obs_session.since))
    /\ (Evaluated /\ snap.running) =>
           snap.uptime = (mon_obs.at - obs_session.since) \div TicksPerSec

\* C7's case: the PID tracked before a gap is reported again, a second or more
\* into its session.
C7_Witness ==
    /\ Evaluated /\ snap.running /\ obs_session.gap
    /\ mon_obs.tracked_before = snap.pid
    /\ snap.uptime >= 1

\* C8: of two successive running=True snapshots with the same PID the later has
\* the greater or equal uptime, and every running=True evaluation queried the
\* memory of its PID.
C8_UptimeMonotoneMemoryQueried ==
    /\ (IsSome(lastRun) /\ IsSome(prevRun) /\ Get(lastRun).pid = Get(prevRun).pid)
           => Get(lastRun).uptime >= Get(prevRun).uptime
    /\ (Evaluated /\ snap.running) => mon_obs.mem_attempted

\* C8's case: the same PID twice, the second time more than a day later.
C8_Witness ==
    /\ IsSome(lastRun) /\ IsSome(prevRun) /\ Get(lastRun).pid = Get(prevRun).pid
    /\ Get(lastRun).uptime > SecsPerDay
    /\ Get(prevRun).uptime > 0

\* the census reported a PID and the memory query failed or was unreadable
MemoryUnreadable == mon_obs.census = "pid" /\ mon_obs.mem \in {"none", "failed"}

\* C14: every evaluation returns a snapshot; with PID P from the census and a
\* memory query that fails or is unreadable it is running, not crashed, pid P,
\* memory 0.0; when the census or the crash check fails it is the snapshot of
\* default values.
C14_FailuresGiveDefaults ==
    Evaluated =>
        /\ MemoryUnreadable =>
               /\ snap.running /\ ~snap.crashed
               /\ snap.pid = mon_obs.pid /\ snap.memory_mb = 0
        /\ ( \/ mon_obs.census \in {"failed", "raise"}
             \/ mon_obs.last_grep \in {"failed", "raise"} ) => snap = AppStatus

\* C14 as the code has it: a census that failed to run is taken as no matching
\* process, so the crash check runs and the snapshot is running=False with
\* crashed as the check found; a grep that failed to run counts as no line for
\* its pattern only; an exception in check_app_status, or in a grep, gives the
\* snapshot of default values.
C14_FailuresDegrade ==
    Evaluated =>
        /\ MemoryUnreadable =>
               /\ snap.running /\ ~snap.crashed
               /\ snap.pid = mon_obs.pid /\ snap.memory_mb = 0
        /\ mon_obs.census \in {"failed", "none"} => snap = StoppedStatus(mon_obs.evidence)
        /\ mon_obs.census = "raise" => snap = AppStatus
        /\ mon_obs.last_grep \in {"failed", "raise"} => snap = AppStatus
        /\ mon_obs.last_grep = "hit" => snap = StoppedStatus(TRUE)

\* C14's case: the census failed to run and a grep after it found a line.
C14_Witness ==
    Evaluated /\ mon_obs.census = "failed" /\ mon_obs.evidence /\ snap.crashed

\* C21: a snapshot with running=False has pid None, uptime 0 and memory 0.0
\* whatever the tracker holds, and the crash report capture_crash_logs builds
\* from a crashed snapshot records uptime 0, memory 0.0 and a null PID.
C21_StoppedSnapshotIsBlank ==
    /\ (Evaluated /\ ~snap.running) =>
           (snap.pid = None /\ snap.uptime = 0 /\ snap.memory_mb = 0)
    /\ (Evaluated /\ snap.crashed) =>
           \A stdout \in LogcatOutputs \cup {<<>>} :
               LET report == crash_report(snap, get_crash_logcat(stdout), clock) IN
               report.uptime = 0 /\ report.memory_usage = 0 /\ report.pid = None

\* C21's case: a crashed snapshot while the tracker holds a session that has run
\* for a second or more.
C21_Witness ==
    /\ Evaluated /\ snap.crashed
    /\ IsSome(last_pid) /\ IsSome(start_time)
    /\ clock - Get(start_time) >= TicksPerSec
    /\ IsSome(lastRun) /\ Get(lastRun).uptime > 0

---------------------------------------------------------------------------
(* Claims about the crash logger *)

\* C2: the second of two capture_crash_logs calls for the same snapshot, one
\* right after the other, leaves one more artifact in the directory than the
\* first left.  Stated for the calls whose writes succeed and whose sweep has
\* nothing to delete (fewer than max_log_files artifacts, none past retention).
C2_BackToBackCapturesAddOne ==
    ( /\ cap_obs.done /\ cap_obs.prev_done
      /\ cap_obs.kind = "crash" /\ cap_obs.prev_kind = "crash"
      /\ cap_obs.status = cap_obs.prev_status
      /\ cap_obs.outcome = "ok" /\ cap_obs.prev_outcome = "ok"
      /\ ~cap_obs.sweep_failed
      /\ Cardinality(cap_obs.before) < max_log_files
      /\ \A f \in cap_obs.listed : cap_obs.now - f.mtime <= retention_days * TicksPerDay )
    => Cardinality(store) = Cardinality(cap_obs.before) + 1

\* C3: a capture returns the path only if the artifact is in the directory with
\* the report it built, and returns "" when the write met an I/O failure.
C3_PathOnlyWhenPersisted ==
    cap_obs.done =>
        /\ IsSome(cap_obs.returned) =>
              \E f \in cap_obs.listed :
                  f.name = cap_obs.name /\ f.content = cap_obs.report
        /\ cap_obs.outcome /= "ok" => cap_obs.returned = None

\* C4: a step whose write succeeds leaves every artifact that is still in the
\* directory as it was: same content, same modification time.
C4_ArtifactsNeverOverwritten ==
    [][ cap_obs'.outcome = "ok" =>
            \A f \in store : \A g \in store' : g.name = f.name => g = f ]_vars

\* an artifact no older than the retention window at the sweep
WithinRetention(f, now) == now - f.mtime <= retention_days * TicksPerDay

\* C10: a sweep that runs to its end over N artifacts, all within retention_days,
\* deletes max(0, N - max_files) of them, none newer than one it keeps, and
\* leaves min(N, max_files).
C10_SweepKeepsNewestMaxFiles ==
    ( /\ cap_obs.done /\ ~cap_obs.sweep_failed
      /\ \A f \in cap_obs.listed : WithinRetention(f, cap_obs.now) )
    => LET N == Cardinality(cap_obs.listed)
           deleted == cap_obs.listed \ store
       IN /\ store \subseteq cap_obs.listed
          /\ Cardinality(deleted) = (IF N > max_log_files THEN N - max_log_files ELSE 0)
          /\ Cardinality(store) = (IF N < max_log_files THEN N ELSE max_log_files)
          /\ \A d \in deleted : \A k \in store : d.mtime <= k.mtime

\* C10's case: two or more artifacts over the limit, modification times that
\* differ, all within retention.
C10_Witness ==
    /\ cap_obs.done /\ ~cap_obs.sweep_failed
    /\ \A f \in cap_obs.listed : WithinRetention(f, cap_obs.now)
    /\ Cardinality(cap_obs.listed) >= max_log_files + 2
    /\ \E d \in cap_obs.listed \ store : \E k \in store : d.mtime < k.mtime

\* C11: a sweep that runs to its end over at most max_files artifacts deletes
\* those older than the retention window and no others; after any sweep that
\* runs to its end, no artifact left is older than the retention window.
C11_SweepDeletesAgedOnly ==
    ( cap_obs.done /\ ~cap_obs.sweep_failed )
    => /\ Cardinality(cap_obs.listed) <= max_log_files
             => cap_obs.listed \ store =
                    {f \in cap_obs.listed : ~WithinRetention(f, cap_obs.now)}
       /\ \A f \in store : WithinRetention(f, cap_obs.now)

\* C11's case: no more than max_files artifacts, one older than the window and
\* deleted, one within it and kept.
C11_Witness ==
    /\ cap_obs.done /\ ~cap_obs.sweep_failed
    /\ Cardinality(cap_obs.listed) <= max_log_files
    /\ \E f \in cap_obs.listed \ store : ~WithinRetention(f, cap_obs.now)
    /\ store /= {}

\* tail is the last min(Len(lines), n) entries of lines, in their order
IsTailOf(tail, lines, n) ==
    /\ Len(tail) = (IF Len(lines) < n THEN Len(lines) ELSE n)
    /\ \A i \in 1..Len(tail) : tail[i] = lines[Len(lines) - Len(tail) + i]

\* C12: the crash_logs of the report capture_crash_logs builds, and of every
\* crash artifact in the directory, are at most 100 lines: the last
\* min(n, 100) of the n lines the logcat query returned, in their order.
C12_CrashTailIsLast100 ==
    /\ ( cap_obs.done /\ cap_obs.kind = "crash" )
       => /\ IsSome(cap_obs.report.logs)
          /\ Len(Get(cap_obs.report.logs)) <= CrashTail
          /\ IsTailOf(Get(cap_obs.report.logs), cap_obs.lines, CrashTail)
          /\ cap_obs.report.logcat_lines = Some(Len(cap_obs.lines))
          /\ cap_obs.outcome = "ok"
                => \E f \in cap_obs.listed :
                       f.name = cap_obs.name /\ f.content = cap_obs.report
    /\ \A f \in store :
           f.content.kind = "crash" => Len(Get(f.content.logs)) <= CrashTail

\* C12's case: the query returned more than 100 lines and the artifact was
\* written.
C12_Witness ==
    /\ cap_obs.done /\ cap_obs.kind = "crash" /\ cap_obs.outcome = "ok"
    /\ Len(cap_obs.lines) > CrashTail
    /\ \E f \in store : f.content = cap_obs.report

\* C13: capture_force_stop_event records crash_type force_stop whatever the
\* system logs say, keeps the last 50 of their lines at most, and with no lines
\* (the query failed or printed nothing) still builds the record, writes it and
\* returns its path.
C13_ForceStopRecord ==
    ( cap_obs.done /\ cap_obs.kind = "force_stop" )
    => /\ cap_obs.report.crash_type = "force_stop"
       /\ cap_obs.report.kind = "force_stop"
       /\ cap_obs.report.pid = cap_obs.status.pid
       /\ IsSome(cap_obs.report.logs)
             => /\ Len(Get(cap_obs.report.logs)) <= SystemTail
                /\ IsTailOf(Get(cap_obs.report.logs), cap_obs.lines, SystemTail)
       /\ cap_obs.lines = <<>> => cap_obs.report.logs = None
       /\ cap_obs.returned = Some(cap_obs.name)
       /\ cap_obs.outcome = "ok"
             => \E f \in cap_obs.listed :
                    f.name = cap_obs.name /\ f.content = cap_obs.report

\* C13's cases: more than 50 system-log lines, and none at all, each written.
C13_Witness ==
    /\ cap_obs.done /\ cap_obs.kind = "force_stop" /\ cap_obs.outcome = "ok"
    /\ \/ Len(cap_obs.lines) > SystemTail
       \/ cap_obs.lines = <<>>
    /\ \E f \in store : f.content = cap_obs.report

\* the directory holds more than max_files artifacts, or one older than the
\* retention window at the time now
OverRetention(files, now) ==
    \/ Cardinality(files) > max_log_files
    \/ \E f \in files : ~WithinRetention(f, now)

\* C16: when a sweep stopped partway and left the directory over the limit or
\* with an artifact older than the window, the sweep of the next capture, if it
\* runs to its end, leaves at most max_files artifacts and none older than the
\* window.
C16_NextSweepRestoresRetention ==
    ( /\ cap_obs.done /\ cap_obs.prev_done
      /\ cap_obs.prev_sweep_failed
      /\ OverRetention(cap_obs.before, cap_obs.prev_now)
      /\ ~cap_obs.sweep_failed )
    => ~OverRetention(store, cap_obs.now)

\* C16's case: the failed sweep left artifacts over the limit, and the next
\* sweep deleted some of them.
C16_Witness ==
    /\ cap_obs.done /\ cap_obs.prev_done
    /\ cap_obs.prev_sweep_failed
    /\ Cardinality(cap_obs.before) > max_log_files
    /\ ~cap_obs.sweep_failed
    /\ cap_obs.before \ store /= {}

\* f is within the retention window and fewer than max_files other artifacts of
\* the listing are as new as f or newer
SurelyRetained(f, files, now) ==
    /\ WithinRetention(f, now)
    /\ Cardinality({g \in files \ {f} : g.mtime >= f.mtime}) < max_log_files

\* the general half of C20: no sweep, whole or stopped partway, deletes an
\* artifact that is within the window and among the max_files newest
C20_KeepsSurelyRetained ==
    cap_obs.done =>
        \A f \in cap_obs.listed : SurelyRetained(f, cap_obs.listed, cap_obs.now) => f \in store

\* C20: no sweep, whole or stopped partway, deletes an artifact that is within
\* the window and among the max_files newest; and the artifact a capture has
\* just written is there after the sweep of that capture.
C20_NeverOverDeletes ==
    cap_obs.done =>
        /\ \A f \in cap_obs.listed :
               SurelyRetained(f, cap_obs.listed, cap_obs.now) => f \in store
        /\ cap_obs.outcome = "ok" => \E f \in store : f.name = cap_obs.name

\* C15: a capture that has begun returns, even when the diagnostic command it
\* waits for never completes.
C15_CaptureReturns == (lpc /= "idle") ~> (lpc = "idle")

---------------------------------------------------------------------------
(* Claims about log_status, checked under SpecStatus *)

\* C19: a log_status call whose write succeeds appends one complete line to the
\* status log and leaves what was there as it was; one whose write fails leaves
\* the status log as it was.
C19_StatusAppendOnly ==
    status_obs.done =>
        /\ status_obs.outcome = "ok"
              => status_log = Append(status_obs.before, StatusWrite(status_obs.line, TRUE))
        /\ status_obs.outcome /= "ok" => status_log = status_obs.before

---------------------------------------------------------------------------
(* Claims about get_crash_statistics, checked under SpecStatistics *)

\* the RecentCount artifacts modified last (all when there are no more)
MostRecent(files) ==
    {f \in files : Cardinality({g \in files : g.mtime > f.mtime}) < RecentCount}

\* C17: the histogram counts the crash types of the 10 artifacts modified last
\* (of all when there are fewer), whatever the order of the listing, the
\* malformed ones left out.
C17_HistogramOverMostRecent ==
    ( stats.done /\ IsSome(stats.result) )
    => Get(stats.result).recent_crash_types = Histogram(MostRecent(store))

\* C18: on an empty directory the statistics are total 0, today 0, an empty
\* histogram, oldest 0 and newest 0.
C18_EmptyDirectoryStatistics ==
    ( stats.done /\ store = {} )
    => /\ IsSome(stats.result)
       /\ Get(stats.result).total_crashes = 0
       /\ Get(stats.result).today_crashes = 0
       /\ DOMAIN Get(stats.result).recent_crash_types = {}
       /\ Get(stats.result).oldest_log = 0
       /\ Get(stats.result).newest_log = 0

\* C18's case: the statistics taken on an empty directory.
C18_Witness == stats.done /\ store = {}

---------------------------------------------------------------------------
(* Claims about the command subscriber, checked under SpecSubscriber *)

\* C5: at most one invocation of restart_callback is in flight at any time.
C5_RestartNeverConcurrent == in_flight <= 1

\* C22: once stop() has returned, no _execute_restart task is created for a
\* line the message loop reads, and no invocation of restart_callback begins.
C22_NoRestartAfterStop ==
    ~sub_obs.created_after_stop /\ ~sub_obs.invoked_after_stop

---------------------------------------------------------------------------
(* Claims about _detect_crash_type, checked under SpecClassify *)

\* pat occurs in text, letter case apart
ContainsCI(text, pat) ==
    \E i \in 1..(Len(text) - Len(pat) + 1) :
        \A j \in 1..Len(pat) : UpperChar(text[i + j - 1]) = pat[j]

\* the ordered rule list: which rules the text meets, and their categories
RuleHits(text) ==
    << ContainsCI(text, FATAL_EXCEPTION),
       ContainsCI(text, ANR) \/ ContainsCI(text, APPLICATION_NOT_RESPONDING),
       ContainsCI(text, OUTOFMEMORYERROR),
       ContainsCI(text, SIGNAL) /\ ContainsCI(text, SIGSEGV),
       ContainsCI(text, SIGABRT),
       ContainsCI(text, SIGKILL) >>
RuleTypes == <<"fatal_exception", "anr", "oom", "native_crash", "abort", "killed">>

FirstMatch(logs) ==
    IF logs = <<>> THEN "process_missing"
    ELSE LET hits == RuleHits(Join(logs))
             met == {i \in 1..Len(RuleTypes) : hits[i]}
         IN IF met = {} THEN "unknown"
            ELSE RuleTypes[CHOOSE i \in met : \A j \in met : i <= j]

\* C9: _detect_crash_type gives the category of the first rule of the ordered
\* list that the joined text meets, letter case apart; one of the seven
\* categories other than process_missing for a list with lines, process_missing
\* for the empty list, and fatal_exception when the text holds both SIGABRT and
\* FATAL EXCEPTION.
C9_FirstMatchWins ==
    cls_out /= "unset" =>
        /\ cls_out = FirstMatch(cls_in)
        /\ cls_in /= <<>> =>
              cls_out \in {"fatal_exception", "anr", "oom", "native_crash", "abort",
                           "killed", "unknown"}
        /\ cls_in = <<>> => cls_out = "process_missing"
        /\ ( ContainsCI(Join(cls_in), SIGABRT)
             /\ ContainsCI(Join(cls_in), FATAL_EXCEPTION) ) => cls_out = "fatal_exception"

\* C9's case: a text with both SIGABRT and FATAL EXCEPTION, classified.
C9_Witness ==
    /\ cls_out = "fatal_exception"
    /\ ContainsCI(Join(cls_in), SIGABRT)

====
